---------------------------- MODULE Spec2Model ----------------------------
(***************************************************************************)
(* Lifecycle of one OKE cluster aggregate (cluster/oke.go): construction   *)
(* from a create request, CreateCluster, UpdateCluster, DeleteCluster, the *)
(* status projections, and the worker-subnet distribution.                 *)
(*                                                                         *)
(* Every handler is one action.  The upstream collaborators (OCI client    *)
(* factory, VCN manager, container-engine manager, Kubernetes client) are  *)
(* the environment: each of their replies is an input of the action,       *)
(* drawn from a small set.  The calls a handler makes are recorded, in     *)
(* order, in `calls`; the error it returns in `err`.                       *)
(***************************************************************************)
EXTENDS Integers, Sequences, FiniteSets, TLC

VARIABLES
    modelCluster,   \* o.modelCluster: NoCluster (nil) or [OKE, Status]
    vcns,           \* the virtual networks that exist upstream (ids)
    handler,        \* the handler that ran last
    request,        \* the request object handed to it, as the handler left it
    calls,          \* the upstream calls that handler made, in order
    networkValues,  \* the reply of its GetNetworkValues query, if any
    cluster,        \* the reply of its GetCluster query, if any
    response,       \* the value it returned besides the error
    err,            \* the error it returned (NoErr: nil)
    APIEndpoint,    \* OKECluster.APIEndpoint, the endpoint kept on the handle
    qpv             \* input and output of the last GetPoolQuantityValues call

vars == <<modelCluster, vcns, handler, request, calls, networkValues, cluster,
          response, err, APIEndpoint, qpv>>

---------------------------------------------------------------------------
(* Bounds of the model *)

MaxCount == 6      \* instance count of a requested pool: 0 or MaxCount
MaxWN == 3         \* worker subnets a network reports: 2..MaxWN
MaxLB == 3         \* load-balancer subnets a network reports: 1..MaxLB
MaxDistCount == 9  \* counts tried on GetPoolQuantityValues alone
MaxDistWN == 4     \* worker subnets tried on GetPoolQuantityValues alone

---------------------------------------------------------------------------
(* Values *)

\* The node pool names requests use, and the ids the VCN manager hands out.
PoolNames == <<"np1", "np2">>
VCNIDs == {"vcn1"}
LBSubnets(n) == [i \in 1..n |-> "lb" \o ToString(i)]
WNSubnets(n) == [i \in 1..n |-> "wn" \o ToString(i)]

\* Go's nil / zero values
NoCluster == [nil |-> TRUE]
NoRequest == [nil |-> TRUE]
NoReply == [nil |-> TRUE]
NoResponse == [nil |-> TRUE]
NoErr == <<>>

\* The zero value of modelOracle.Cluster
ZeroOKE == [VCNID |-> "", LBSubnetID1 |-> "", LBSubnetID2 |-> "",
            NodePools |-> <<>>, Delete |-> FALSE, Version |-> ""]

\* An error is the chain of its messages, outermost first.
NewError(msg) == <<msg>>
Wrap(e, msg) == <<msg>> \o e
Cause(e) == e[Len(e)]

\* One recorded upstream call: which, whether it returned without error, its
\* string argument (the virtual network id it was about or returned, the
\* subject of a role binding), the spec submitted.
Call(name, ok, arg, spec) == [call |-> name, ok |-> ok, arg |-> arg, spec |-> spec]
NoSpec == [nil |-> TRUE]

Range(s) == {s[i] : i \in 1..Len(s)}
Last(s) == s[Len(s)]

---------------------------------------------------------------------------
(* The distribution algorithm *)

\* GetPoolQuantityValues with the two divisibility tests in the other order.
GetPoolQuantityValues_HalvesFirst(count, nv) ==
    IF count = 0 \/ Len(nv.WNSubnetIDs) < 3
    THEN [qps |-> 0, subnetIDS |-> <<>>]
    ELSE IF count % 2 = 0
    THEN [qps |-> count \div 2, subnetIDS |-> SubSeq(nv.WNSubnetIDs, 1, 2)]
    ELSE IF count % 3 = 0
    THEN [qps |-> count \div 3, subnetIDS |-> SubSeq(nv.WNSubnetIDs, 1, 3)]
    ELSE [qps |-> count, subnetIDS |-> SubSeq(nv.WNSubnetIDs, 1, 1)]

\* oke.go 528-545.  count is a uint; the named results start at their zero
\* values and the early return leaves them there.
GetPoolQuantityValues(count, nv) ==
    IF count = 0 \/ Len(nv.WNSubnetIDs) < 3
    THEN [qps |-> 0, subnetIDS |-> <<>>]
    ELSE LET qps0 == count
             subnetIDS0 == SubSeq(nv.WNSubnetIDs, 1, 1)
         IN  IF count % 3 = 0
             THEN [qps |-> count \div 3, subnetIDS |-> SubSeq(nv.WNSubnetIDs, 1, 3)]
             ELSE IF count % 2 = 0
             THEN [qps |-> count \div 2, subnetIDS |-> SubSeq(nv.WNSubnetIDs, 1, 2)]
             ELSE [qps |-> qps0, subnetIDS |-> subnetIDS0]

\* getNodeCount adding where it should multiply.
getNodeCount_Sum(np) == np.QuantityPerSubnet + Len(np.Subnets)

\* oke.go 233-235
getNodeCount(np) == np.QuantityPerSubnet * Len(np.Subnets)


---------------------------------------------------------------------------
(* Errors of the collaborators and of the handlers *)

OCIError == NewError("oci client: upstream error")
VCNCreateError == NewError("vcn create: upstream error")
VCNDeleteError == NewError("vcn delete: upstream error")
NetworkValuesError == NewError("network values: upstream error")
ManageError == NewError("manage cluster: upstream error")
ModelError == NewError("model: invalid request")
K8sConfigError == NewError("k8s config: upstream error")
K8sClientError == NewError("k8s client: upstream error")
SecretError == NewError("secret: upstream error")
BindingError == NewError("cluster role binding: upstream error")
GetClusterError == NewError("get cluster: upstream error")
InvalidVCN == NewError("Invalid VCN!")
InvalidNetworkConfig ==
    NewError("Invalid network config: there must be 2 loadbalancer subnets!")
EmptyUserOCID == NewError("empty user OCID")
ModelDeleteError == NewError("model delete: database error")
CleanupError == NewError("cleanup: database error")
ErrorClusterNotReady == NewError("ClusterNotReady")

---------------------------------------------------------------------------
(* NetworkProvisioner *)

\* oke.go 463-483.  env.vcn is the reply of VCNManager.Create: "err", "noid"
\* (a network without an id) or the id of the network it created.
CreatePreconfiguredVCN(env) ==
    IF ~env.oci1
    THEN [VCNID |-> "", err |-> OCIError, calls |-> <<>>]
    ELSE IF env.vcn = "err"
    THEN [VCNID |-> "", err |-> VCNCreateError,
          calls |-> <<Call("VCNCreate", FALSE, "", NoSpec)>>]
    ELSE IF env.vcn = "noid"
    THEN [VCNID |-> "", err |-> InvalidVCN,
          calls |-> <<Call("VCNCreate", TRUE, "", NoSpec)>>]
    ELSE [VCNID |-> env.vcn, err |-> NoErr,
          calls |-> <<Call("VCNCreate", TRUE, env.vcn, NoSpec)>>]

\* oke.go 486-495
DeletePreconfiguredVCN(VCNID, env) ==
    IF ~env.oci2
    THEN [err |-> OCIError, calls |-> <<>>]
    ELSE IF ~env.vcnDelete
    THEN [err |-> VCNDeleteError, calls |-> <<Call("VCNDelete", FALSE, VCNID, NoSpec)>>]
    ELSE [err |-> NoErr, calls |-> <<Call("VCNDelete", TRUE, VCNID, NoSpec)>>]

\* oke.go 518-522: the loop over the request's node pools
PopulateNodePools(nodePools, nv) ==
    [i \in 1..Len(nodePools) |->
        LET v == GetPoolQuantityValues(nodePools[i].Count, nv)
        IN  [nodePools[i] EXCEPT !.QuantityPerSubnet = v.qps,
                                 !.SubnetIDs = v.subnetIDS]]

\* PopulateNetworkValues asking for at least 2 load-balancer subnets.
PopulateNetworkValues_AtLeastTwo(r, VCNID, env) ==
    IF ~env.oci
    THEN [r |-> r, err |-> OCIError, calls |-> <<>>, networkValues |-> NoReply]
    ELSE IF env.net = NoReply
    THEN [r |-> r, err |-> NetworkValuesError,
          calls |-> <<Call("GetNetworkValues", FALSE, VCNID, NoSpec)>>,
          networkValues |-> NoReply]
    ELSE LET r1 == [r EXCEPT !.VCNID = VCNID]
             c == <<Call("GetNetworkValues", TRUE, VCNID, NoSpec)>>
         IN  IF Len(env.net.LBSubnetIDs) < 2
             THEN [r |-> r1, err |-> InvalidNetworkConfig, calls |-> c,
                   networkValues |-> env.net]
             ELSE [r |-> [r1 EXCEPT !.LBSubnetID1 = env.net.LBSubnetIDs[1],
                                    !.LBSubnetID2 = env.net.LBSubnetIDs[2],
                                    !.NodePools = PopulateNodePools(@, env.net)],
                   err |-> NoErr, calls |-> c, networkValues |-> env.net]

\* PopulateNetworkValues writing the first load-balancer subnet into the
\* request before it counts the load-balancer subnets.
PopulateNetworkValues_SetsSubnetFirst(r, VCNID, env) ==
    IF ~env.oci
    THEN [r |-> r, err |-> OCIError, calls |-> <<>>, networkValues |-> NoReply]
    ELSE IF env.net = NoReply
    THEN [r |-> r, err |-> NetworkValuesError,
          calls |-> <<Call("GetNetworkValues", FALSE, VCNID, NoSpec)>>,
          networkValues |-> NoReply]
    ELSE LET r1 == [r EXCEPT !.VCNID = VCNID,
                             !.LBSubnetID1 = IF env.net.LBSubnetIDs = <<>> THEN @
                                             ELSE env.net.LBSubnetIDs[1]]
             c == <<Call("GetNetworkValues", TRUE, VCNID, NoSpec)>>
         IN  IF Len(env.net.LBSubnetIDs) # 2
             THEN [r |-> r1, err |-> InvalidNetworkConfig, calls |-> c,
                   networkValues |-> env.net]
             ELSE [r |-> [r1 EXCEPT !.LBSubnetID1 = env.net.LBSubnetIDs[1],
                                    !.LBSubnetID2 = env.net.LBSubnetIDs[2],
                                    !.NodePools = PopulateNodePools(@, env.net)],
                   err |-> NoErr, calls |-> c, networkValues |-> env.net]

\* oke.go 498-525.  r is a pointer: what is returned is the caller's request
\* object, changed in place.  env.net is the reply of GetNetworkValues
\* (NoReply: it returned an error).
PopulateNetworkValues(r, VCNID, env) ==
    IF ~env.oci
    THEN [r |-> r, err |-> OCIError, calls |-> <<>>, networkValues |-> NoReply]
    ELSE IF env.net = NoReply
    THEN [r |-> r, err |-> NetworkValuesError,
          calls |-> <<Call("GetNetworkValues", FALSE, VCNID, NoSpec)>>,
          networkValues |-> NoReply]
    ELSE LET r1 == [r EXCEPT !.VCNID = VCNID]
             c == <<Call("GetNetworkValues", TRUE, VCNID, NoSpec)>>
         IN  IF Len(env.net.LBSubnetIDs) # 2
             THEN [r |-> r1, err |-> InvalidNetworkConfig, calls |-> c,
                   networkValues |-> env.net]
             ELSE [r |-> [r1 EXCEPT !.LBSubnetID1 = env.net.LBSubnetIDs[1],
                                    !.LBSubnetID2 = env.net.LBSubnetIDs[2],
                                    !.NodePools = PopulateNodePools(@, env.net)],
                   err |-> NoErr, calls |-> c, networkValues |-> env.net]

\* The virtual networks that exist after the VCN manager served `cs`:
\* Create(name) -> {id}, Delete(id).
RECURSIVE Upstream(_, _)
Upstream(nets, cs) ==
    IF cs = <<>> THEN nets
    ELSE LET c == Head(cs)
             n == IF c.call = "VCNCreate" /\ c.ok /\ c.arg # "" THEN nets \cup {c.arg}
                  ELSE IF c.call = "VCNDelete" /\ c.ok THEN nets \ {c.arg}
                  ELSE nets
         IN  Upstream(n, Tail(cs))

---------------------------------------------------------------------------
(* Conversions between request and stored spec (pkg/providers/oracle/model) *)

ModelNodePool(np) ==
    [Name |-> np.Name, QuantityPerSubnet |-> np.QuantityPerSubnet,
     Subnets |-> np.SubnetIDs, Delete |-> FALSE]

\* The stored spec of a create request.
CreateModelFromCreateRequest(r, ok) ==
    IF ~ok THEN [model |-> ZeroOKE, err |-> ModelError]
    ELSE [model |-> [VCNID |-> r.VCNID, LBSubnetID1 |-> r.LBSubnetID1,
                     LBSubnetID2 |-> r.LBSubnetID2,
                     NodePools |-> [i \in 1..Len(r.NodePools) |->
                                        ModelNodePool(r.NodePools[i])],
                     Delete |-> FALSE, Version |-> r.Version],
          err |-> NoErr]

PoolNamed(nodePools, name) ==
    nodePools[CHOOSE i \in 1..Len(nodePools) : nodePools[i].Name = name]

NamesOf(nodePools) == {nodePools[i].Name : i \in 1..Len(nodePools)}

RECURSIVE NewPools(_, _)
NewPools(requested, known) ==
    IF requested = <<>> THEN <<>>
    ELSE IF Head(requested).Name \in known THEN NewPools(Tail(requested), known)
    ELSE <<ModelNodePool(Head(requested))>> \o NewPools(Tail(requested), known)

\* The desired spec of an update: the request merged into the stored spec.
\* A stored pool the request names takes the request's values, a stored pool
\* it does not name is flagged pending-delete, a pool only the request names
\* is added.
CreateModelFromUpdateRequest(current, r, ok) ==
    IF ~ok THEN [model |-> current, err |-> ModelError]
    ELSE LET kept == [i \in 1..Len(current.NodePools) |->
                        LET np == current.NodePools[i]
                        IN  IF np.Name \in NamesOf(r.NodePools)
                            THEN ModelNodePool(PoolNamed(r.NodePools, np.Name))
                            ELSE [np EXCEPT !.Delete = TRUE]]
         IN  [model |-> [current EXCEPT
                            !.NodePools = kept \o NewPools(r.NodePools,
                                                           NamesOf(current.NodePools)),
                            !.Version = r.Version],
              err |-> NoErr]

---------------------------------------------------------------------------
(* ClusterLifecycleController *)

\* What a handler hands back: the aggregate, the request object, the error,
\* the upstream calls it made and the network reply it read.
Outcome(o, r, e, cs, nv) ==
    [o |-> o, request |-> r, err |-> e, calls |-> cs, networkValues |-> nv]

\* CreateOKEClusterFromRequest deleting the network it created when
\* populating the network values fails.
CreateOKEClusterFromRequest_RollsBack(req, env) ==
    LET oke == [OKE |-> ZeroOKE, Status |-> ""]
        v == CreatePreconfiguredVCN(env)
    IN  IF v.err # NoErr
        THEN Outcome(oke, req, v.err, v.calls, NoReply)
        ELSE LET p == PopulateNetworkValues(req, v.VCNID,
                                            [oci |-> env.oci2, net |-> env.net])
             IN  IF p.err # NoErr
                 THEN Outcome(oke, p.r, p.err,
                              v.calls \o p.calls
                                 \o <<Call("VCNDelete", TRUE, v.VCNID, NoSpec)>>,
                              p.networkValues)
                 ELSE LET m == CreateModelFromCreateRequest(p.r, env.modelOK)
                      IN  IF m.err # NoErr
                          THEN Outcome(oke, p.r, m.err, v.calls \o p.calls,
                                       p.networkValues)
                          ELSE Outcome([oke EXCEPT !.OKE = m.model], p.r, NoErr,
                                       v.calls \o p.calls, p.networkValues)

\* oke.go 42-76
CreateOKEClusterFromRequest(req, env) ==
    LET oke == [OKE |-> ZeroOKE, Status |-> ""]
        v == CreatePreconfiguredVCN(env)
    IN  IF v.err # NoErr
        THEN Outcome(oke, req, v.err, v.calls, NoReply)
        ELSE LET p == PopulateNetworkValues(req, v.VCNID,
                                            [oci |-> env.oci2, net |-> env.net])
             IN  IF p.err # NoErr
                 THEN Outcome(oke, p.r, p.err, v.calls \o p.calls, p.networkValues)
                 ELSE LET m == CreateModelFromCreateRequest(p.r, env.modelOK)
                      IN  IF m.err # NoErr
                          THEN Outcome(oke, p.r, m.err, v.calls \o p.calls,
                                       p.networkValues)
                          ELSE Outcome([oke EXCEPT !.OKE = m.model], p.r, NoErr,
                                       v.calls \o p.calls, p.networkValues)

\* setClusterAdminRights without the test of the user OCID.
setClusterAdminRights_NoOCIDCheck(name, env) ==
    IF ~env.k8sConfig
    THEN [err |-> Wrap(K8sConfigError, "error getting k8s config"), calls |-> <<>>]
    ELSE IF ~env.k8sClient
    THEN [err |-> Wrap(K8sClientError, "error getting k8s client"), calls |-> <<>>]
    ELSE IF ~env.secret
    THEN [err |-> Wrap(SecretError, "error getting secret"), calls |-> <<>>]
    ELSE IF ~env.bind
    THEN [err |-> Wrap(BindingError, "creating cluster role binding failed"),
          calls |-> <<Call("CreateClusterRoleBinding", FALSE, env.userOCID, NoSpec)>>]
    ELSE [err |-> NoErr,
          calls |-> <<Call("CreateClusterRoleBinding", TRUE, env.userOCID, NoSpec)>>]

\* oke.go 560-607
setClusterAdminRights(name, env) ==
    IF ~env.k8sConfig
    THEN [err |-> Wrap(K8sConfigError, "error getting k8s config"), calls |-> <<>>]
    ELSE IF ~env.k8sClient
    THEN [err |-> Wrap(K8sClientError, "error getting k8s client"), calls |-> <<>>]
    ELSE IF ~env.secret
    THEN [err |-> Wrap(SecretError, "error getting secret"), calls |-> <<>>]
    ELSE IF env.userOCID = ""
    THEN [err |-> EmptyUserOCID, calls |-> <<>>]
    ELSE IF ~env.bind
    THEN [err |-> Wrap(BindingError, "creating cluster role binding failed"),
          calls |-> <<Call("CreateClusterRoleBinding", FALSE, env.userOCID, NoSpec)>>]
    ELSE [err |-> NoErr,
          calls |-> <<Call("CreateClusterRoleBinding", TRUE, env.userOCID, NoSpec)>>]

\* CreateCluster going on to the role binding whatever the apply returned.
CreateCluster_IgnoresApplyError(o, env) ==
    IF ~env.oci
    THEN Outcome(o, NoRequest, OCIError, <<>>, NoReply)
    ELSE LET c == <<Call("ManageOKECluster", env.manage, o.OKE.VCNID, o.OKE)>>
             a == setClusterAdminRights("cluster-creator-admin-right", env)
         IN  IF a.err # NoErr
             THEN Outcome(o, NoRequest,
                          Wrap(a.err, "error get/create clusterrolebinding"),
                          c \o a.calls, NoReply)
             ELSE Outcome(o, NoRequest, NoErr, c \o a.calls, NoReply)

\* CreateCluster marking the aggregate as being created before it applies.
CreateCluster_MarksCreating(o, env) ==
    LET o1 == [o EXCEPT !.Status = "CREATING"]
    IN  IF ~env.oci
        THEN Outcome(o1, NoRequest, OCIError, <<>>, NoReply)
        ELSE IF ~env.manage
        THEN Outcome(o1, NoRequest, Wrap(ManageError, "error creating cluster"),
                     <<Call("ManageOKECluster", FALSE, o1.OKE.VCNID, o1.OKE)>>,
                     NoReply)
        ELSE LET c == <<Call("ManageOKECluster", TRUE, o1.OKE.VCNID, o1.OKE)>>
                 a == setClusterAdminRights("cluster-creator-admin-right", env)
             IN  IF a.err # NoErr
                 THEN Outcome(o1, NoRequest,
                              Wrap(a.err, "error get/create clusterrolebinding"),
                              c \o a.calls, NoReply)
                 ELSE Outcome(o1, NoRequest, NoErr, c \o a.calls, NoReply)

\* oke.go 79-99
CreateCluster(o, env) ==
    IF ~env.oci
    THEN Outcome(o, NoRequest, OCIError, <<>>, NoReply)
    ELSE IF ~env.manage
    THEN Outcome(o, NoRequest, Wrap(ManageError, "error creating cluster"),
                 <<Call("ManageOKECluster", FALSE, o.OKE.VCNID, o.OKE)>>, NoReply)
    ELSE LET c == <<Call("ManageOKECluster", TRUE, o.OKE.VCNID, o.OKE)>>
             a == setClusterAdminRights("cluster-creator-admin-right", env)
         IN  IF a.err # NoErr
             THEN Outcome(o, NoRequest,
                          Wrap(a.err, "error get/create clusterrolebinding"),
                          c \o a.calls, NoReply)
             ELSE Outcome(o, NoRequest, NoErr, c \o a.calls, NoReply)

\* RemoveDeleted putting each pool it keeps in front of those kept so far.
RECURSIVE RemoveDeleted_Reversed(_)
RemoveDeleted_Reversed(nodePools) ==
    IF nodePools = <<>> THEN <<>>
    ELSE IF ~Head(nodePools).Delete
    THEN RemoveDeleted_Reversed(Tail(nodePools)) \o <<Head(nodePools)>>
    ELSE RemoveDeleted_Reversed(Tail(nodePools))

\* oke.go 125-131: the node pools not marked for deleting, in their order
RECURSIVE RemoveDeleted(_)
RemoveDeleted(nodePools) ==
    IF nodePools = <<>> THEN <<>>
    ELSE IF ~Head(nodePools).Delete
    THEN <<Head(nodePools)>> \o RemoveDeleted(Tail(nodePools))
    ELSE RemoveDeleted(Tail(nodePools))

\* UpdateCluster storing the pruned spec before it looks at the apply error.
UpdateCluster_StoresBeforeApply(o, r, env) ==
    LET p == PopulateNetworkValues(r, o.OKE.VCNID, [oci |-> env.oci, net |-> env.net])
    IN  IF p.err # NoErr
        THEN Outcome(o, p.r, p.err, p.calls, p.networkValues)
        ELSE LET m == CreateModelFromUpdateRequest(o.OKE, p.r, env.modelOK)
             IN  IF m.err # NoErr
                 THEN Outcome(o, p.r, m.err, p.calls, p.networkValues)
                 ELSE IF ~env.oci2
                 THEN Outcome(o, p.r, OCIError, p.calls, p.networkValues)
                 ELSE Outcome([o EXCEPT !.OKE = [m.model EXCEPT
                                  !.NodePools = RemoveDeleted(m.model.NodePools)]],
                              p.r, IF env.manage THEN NoErr ELSE ManageError,
                              p.calls \o <<Call("ManageOKECluster", env.manage,
                                                m.model.VCNID, m.model)>>,
                              p.networkValues)

\* UpdateCluster describing the network the request names instead of the
\* stored one.
UpdateCluster_UsesRequestVCN(o, r, env) ==
    LET p == PopulateNetworkValues(r, r.VCNID, [oci |-> env.oci, net |-> env.net])
    IN  IF p.err # NoErr
        THEN Outcome(o, p.r, p.err, p.calls, p.networkValues)
        ELSE LET m == CreateModelFromUpdateRequest(o.OKE, p.r, env.modelOK)
             IN  IF m.err # NoErr
                 THEN Outcome(o, p.r, m.err, p.calls, p.networkValues)
                 ELSE IF ~env.oci2
                 THEN Outcome(o, p.r, OCIError, p.calls, p.networkValues)
                 ELSE IF ~env.manage
                 THEN Outcome(o, p.r, ManageError,
                              p.calls \o <<Call("ManageOKECluster", FALSE,
                                                m.model.VCNID, m.model)>>,
                              p.networkValues)
                 ELSE Outcome([o EXCEPT !.OKE = [m.model EXCEPT
                                  !.NodePools = RemoveDeleted(m.model.NodePools)]],
                              p.r, NoErr,
                              p.calls \o <<Call("ManageOKECluster", TRUE,
                                                m.model.VCNID, m.model)>>,
                              p.networkValues)

\* UpdateCluster applying its spec a second time when the apply failed.
UpdateCluster_RetriesApply(o, r, env) ==
    LET p == PopulateNetworkValues(r, o.OKE.VCNID, [oci |-> env.oci, net |-> env.net])
    IN  IF p.err # NoErr
        THEN Outcome(o, p.r, p.err, p.calls, p.networkValues)
        ELSE LET m == CreateModelFromUpdateRequest(o.OKE, p.r, env.modelOK)
             IN  IF m.err # NoErr
                 THEN Outcome(o, p.r, m.err, p.calls, p.networkValues)
                 ELSE IF ~env.oci2
                 THEN Outcome(o, p.r, OCIError, p.calls, p.networkValues)
                 ELSE IF ~env.manage
                 THEN Outcome(o, p.r, ManageError,
                              p.calls \o <<Call("ManageOKECluster", FALSE,
                                                m.model.VCNID, m.model),
                                           Call("ManageOKECluster", FALSE,
                                                m.model.VCNID, m.model)>>,
                              p.networkValues)
                 ELSE Outcome([o EXCEPT !.OKE = [m.model EXCEPT
                                  !.NodePools = RemoveDeleted(m.model.NodePools)]],
                              p.r, NoErr,
                              p.calls \o <<Call("ManageOKECluster", TRUE,
                                                m.model.VCNID, m.model)>>,
                              p.networkValues)

\* oke.go 102-137
UpdateCluster(o, r, env) ==
    LET p == PopulateNetworkValues(r, o.OKE.VCNID, [oci |-> env.oci, net |-> env.net])
    IN  IF p.err # NoErr
        THEN Outcome(o, p.r, p.err, p.calls, p.networkValues)
        ELSE LET m == CreateModelFromUpdateRequest(o.OKE, p.r, env.modelOK)
             IN  IF m.err # NoErr
                 THEN Outcome(o, p.r, m.err, p.calls, p.networkValues)
                 ELSE IF ~env.oci2
                 THEN Outcome(o, p.r, OCIError, p.calls, p.networkValues)
                 ELSE IF ~env.manage
                 THEN Outcome(o, p.r, ManageError,
                              p.calls \o <<Call("ManageOKECluster", FALSE,
                                                m.model.VCNID, m.model)>>,
                              p.networkValues)
                 ELSE Outcome([o EXCEPT !.OKE = [m.model EXCEPT
                                  !.NodePools = RemoveDeleted(m.model.NodePools)]],
                              p.r, NoErr,
                              p.calls \o <<Call("ManageOKECluster", TRUE,
                                                m.model.VCNID, m.model)>>,
                              p.networkValues)

\* DeleteCluster deleting the network whatever the apply returned.
DeleteCluster_IgnoresApplyError(o, env) ==
    LET o1 == [o EXCEPT !.OKE.Delete = TRUE]
    IN  IF ~env.oci
        THEN Outcome(o1, NoRequest, OCIError, <<>>, NoReply)
        ELSE LET c == <<Call("ManageOKECluster", env.manage, o1.OKE.VCNID, o1.OKE)>>
                 d == DeletePreconfiguredVCN(o1.OKE.VCNID, env)
             IN  Outcome(o1, NoRequest, d.err, c \o d.calls, NoReply)

\* DeleteCluster returning nil when deleting the network failed.
DeleteCluster_SwallowsVCNError(o, env) ==
    LET o1 == [o EXCEPT !.OKE.Delete = TRUE]
    IN  IF ~env.oci
        THEN Outcome(o1, NoRequest, OCIError, <<>>, NoReply)
        ELSE IF ~env.manage
        THEN Outcome(o1, NoRequest, ManageError,
                     <<Call("ManageOKECluster", FALSE, o1.OKE.VCNID, o1.OKE)>>,
                     NoReply)
        ELSE LET c == <<Call("ManageOKECluster", TRUE, o1.OKE.VCNID, o1.OKE)>>
                 d == DeletePreconfiguredVCN(o1.OKE.VCNID, env)
             IN  Outcome(o1, NoRequest, NoErr, c \o d.calls, NoReply)

\* DeleteCluster dropping the aggregate itself once the network is deleted.
DeleteCluster_RemovesAggregate(o, env) ==
    LET o1 == [o EXCEPT !.OKE.Delete = TRUE]
    IN  IF ~env.oci
        THEN Outcome(o1, NoRequest, OCIError, <<>>, NoReply)
        ELSE IF ~env.manage
        THEN Outcome(o1, NoRequest, ManageError,
                     <<Call("ManageOKECluster", FALSE, o1.OKE.VCNID, o1.OKE)>>,
                     NoReply)
        ELSE LET c == <<Call("ManageOKECluster", TRUE, o1.OKE.VCNID, o1.OKE)>>
                 d == DeletePreconfiguredVCN(o1.OKE.VCNID, env)
             IN  Outcome(IF d.err = NoErr THEN NoCluster ELSE o1, NoRequest,
                         d.err, c \o d.calls, NoReply)

\* DeleteCluster taking its mark back when it returns an error.
DeleteCluster_UndoesMarkOnError(o, env) ==
    LET o1 == [o EXCEPT !.OKE.Delete = TRUE]
    IN  IF ~env.oci
        THEN Outcome(o, NoRequest, OCIError, <<>>, NoReply)
        ELSE IF ~env.manage
        THEN Outcome(o, NoRequest, ManageError,
                     <<Call("ManageOKECluster", FALSE, o1.OKE.VCNID, o1.OKE)>>,
                     NoReply)
        ELSE LET c == <<Call("ManageOKECluster", TRUE, o1.OKE.VCNID, o1.OKE)>>
                 d == DeletePreconfiguredVCN(o1.OKE.VCNID, env)
             IN  Outcome(IF d.err = NoErr THEN o1 ELSE o, NoRequest, d.err,
                         c \o d.calls, NoReply)

\* oke.go 140-161
DeleteCluster(o, env) ==
    LET o1 == [o EXCEPT !.OKE.Delete = TRUE]
    IN  IF ~env.oci
        THEN Outcome(o1, NoRequest, OCIError, <<>>, NoReply)
        ELSE IF ~env.manage
        THEN Outcome(o1, NoRequest, ManageError,
                     <<Call("ManageOKECluster", FALSE, o1.OKE.VCNID, o1.OKE)>>,
                     NoReply)
        ELSE LET c == <<Call("ManageOKECluster", TRUE, o1.OKE.VCNID, o1.OKE)>>
                 d == DeletePreconfiguredVCN(o1.OKE.VCNID, env)
             IN  Outcome(o1, NoRequest, d.err, c \o d.calls, NoReply)

\* oke.go 291-304: the aggregate is dropped once ClusterModel.Delete and
\* the Cleanup of its OKE rows have both succeeded.
DeleteFromDatabase(o, env) ==
    IF ~env.delete THEN [o |-> o, err |-> ModelDeleteError]
    ELSE IF ~env.cleanup THEN [o |-> o, err |-> CleanupError]
    ELSE [o |-> NoCluster, err |-> NoErr]

\* oke.go 164-167, 332-334: the status the caller hands over is stored by
\* ClusterModel.UpdateStatus, unless saving it fails.
UpdateStatus(o, status, ok) ==
    IF ok THEN [o |-> [o EXCEPT !.Status = status], err |-> NoErr]
    ELSE [o |-> o, err |-> NewError("update status: upstream error")]

---------------------------------------------------------------------------
(* StatusProjector *)

\* oke.go 201-231.  The pools are keyed by name: a later pool of the same
\* name replaces an earlier one.
GetStatus(o) ==
    LET nps == o.OKE.NodePools
        last(n) == CHOOSE i \in 1..Len(nps) :
                       /\ nps[i].Name = n
                       /\ \A j \in (i+1)..Len(nps) : nps[j].Name # n
    IN  [Status |-> o.Status,
         Version |-> o.OKE.Version,
         NodePools |-> [n \in NamesOf(nps) |->
                           LET count == getNodeCount(nps[last(n)])
                           IN  [Count |-> count, Autoscaling |-> FALSE,
                                MinCount |-> count, MaxCount |-> count]]]

\* GetClusterDetails trusting a persisted RUNNING status over the live state.
GetClusterDetails_TrustsStatus(o, env) ==
    IF ~env.oci \/ ~env.ce
    THEN [response |-> NoResponse, err |-> OCIError, calls |-> <<>>,
          cluster |-> NoReply]
    ELSE IF env.cluster = NoReply
    THEN [response |-> NoResponse, err |-> GetClusterError,
          calls |-> <<Call("GetCluster", FALSE, "", NoSpec)>>, cluster |-> NoReply]
    ELSE LET c == <<Call("GetCluster", TRUE, "", NoSpec)>>
         IN  IF env.cluster.LifecycleState # "ACTIVE" /\ o.Status # "RUNNING"
             THEN [response |-> NoResponse, err |-> ErrorClusterNotReady,
                   calls |-> c, cluster |-> env.cluster]
             ELSE [response |-> [MasterVersion |-> o.OKE.Version,
                                 NodePools |-> GetStatus(o).NodePools,
                                 Status |-> o.Status],
                   err |-> NoErr, calls |-> c, cluster |-> env.cluster]

\* oke.go 337-387.  env.cluster is the reply of GetCluster (NoReply: it
\* returned an error).
GetClusterDetails(o, env) ==
    IF ~env.oci
    THEN [response |-> NoResponse, err |-> OCIError, calls |-> <<>>,
          cluster |-> NoReply]
    ELSE IF ~env.ce
    THEN [response |-> NoResponse, err |-> OCIError, calls |-> <<>>,
          cluster |-> NoReply]
    ELSE IF env.cluster = NoReply
    THEN [response |-> NoResponse, err |-> GetClusterError,
          calls |-> <<Call("GetCluster", FALSE, "", NoSpec)>>, cluster |-> NoReply]
    ELSE LET c == <<Call("GetCluster", TRUE, "", NoSpec)>>
         IN  IF env.cluster.LifecycleState # "ACTIVE"
             THEN [response |-> NoResponse, err |-> ErrorClusterNotReady,
                   calls |-> c, cluster |-> env.cluster]
             ELSE LET status == GetStatus(o)
                      nps == o.OKE.NodePools
                  IN  [response |->
                          [MasterVersion |-> o.OKE.Version,
                           NodePools |-> [n \in NamesOf(nps) |->
                              [Count |-> status.NodePools[n].Count,
                               MinCount |-> status.NodePools[n].Count,
                               MaxCount |-> status.NodePools[n].Count]],
                           Status |-> o.Status],
                       err |-> NoErr, calls |-> c, cluster |-> env.cluster]

\* GetAPIEndpoint answering from the endpoint it kept, once it has one.
GetAPIEndpoint_FromCache(endpoint, env) ==
    IF endpoint # ""
    THEN [endpoint |-> endpoint, APIEndpoint |-> endpoint, err |-> NoErr,
          calls |-> <<>>, cluster |-> NoReply]
    ELSE IF ~env.oci \/ ~env.ce
    THEN [endpoint |-> endpoint, APIEndpoint |-> endpoint, err |-> OCIError,
          calls |-> <<>>, cluster |-> NoReply]
    ELSE IF env.cluster = NoReply
    THEN [endpoint |-> endpoint, APIEndpoint |-> endpoint, err |-> GetClusterError,
          calls |-> <<Call("GetCluster", FALSE, "", NoSpec)>>, cluster |-> NoReply]
    ELSE [endpoint |-> "https://" \o env.cluster.Endpoint,
          APIEndpoint |-> "https://" \o env.cluster.Endpoint, err |-> NoErr,
          calls |-> <<Call("GetCluster", TRUE, "", NoSpec)>>,
          cluster |-> env.cluster]

\* oke.go 268-288.  endpoint is o.APIEndpoint before the call; the result
\* holds the string returned and o.APIEndpoint after the call.
GetAPIEndpoint(endpoint, env) ==
    IF ~env.oci
    THEN [endpoint |-> endpoint, APIEndpoint |-> endpoint, err |-> OCIError,
          calls |-> <<>>, cluster |-> NoReply]
    ELSE IF ~env.ce
    THEN [endpoint |-> endpoint, APIEndpoint |-> endpoint, err |-> OCIError,
          calls |-> <<>>, cluster |-> NoReply]
    ELSE IF env.cluster = NoReply
    THEN [endpoint |-> endpoint, APIEndpoint |-> endpoint, err |-> GetClusterError,
          calls |-> <<Call("GetCluster", FALSE, "", NoSpec)>>, cluster |-> NoReply]
    ELSE [endpoint |-> "https://" \o env.cluster.Endpoint,
          APIEndpoint |-> "https://" \o env.cluster.Endpoint, err |-> NoErr,
          calls |-> <<Call("GetCluster", TRUE, "", NoSpec)>>,
          cluster |-> env.cluster]

---------------------------------------------------------------------------
(* Inputs *)

\* The node pools of a request: some of the pool names, each with a count
\* (count[i] < 0: the request has no pool of the i-th name).
RECURSIVE RequestPools(_, _)
RequestPools(i, count) ==
    IF i > Len(PoolNames) THEN <<>>
    ELSE IF count[i] < 0 THEN RequestPools(i + 1, count)
    ELSE <<[Name |-> PoolNames[i], Count |-> count[i],
            QuantityPerSubnet |-> 0, SubnetIDs |-> <<>>]>>
         \o RequestPools(i + 1, count)

\* A request as it arrives: no network value set yet.
Requests ==
    {[VCNID |-> "", LBSubnetID1 |-> "", LBSubnetID2 |-> "", Version |-> "v1",
      NodePools |-> RequestPools(1, count)] :
        count \in [1..Len(PoolNames) -> {-1, 0, MaxCount}]}

NetworkReplies ==
    {[LBSubnetIDs |-> LBSubnets(l), WNSubnetIDs |-> WNSubnets(w)] :
        l \in 1..MaxLB, w \in 2..MaxWN}

ClusterReplies ==
    [LifecycleState : {"ACTIVE", "CREATING"}, Version : {"v1", "v2"},
     Endpoint : {"host"}]

Statuses == {"RUNNING"}

\* The replies of the collaborators to one handler.  A handler returns at the
\* first failing call, so the replies it never asks for are left at TRUE.
AllFine(fields) == [f \in fields |-> TRUE]
FailingAt(fields, f) == [AllFine(fields) EXCEPT ![f] = FALSE]
With(env, f, v) == [g \in DOMAIN env \cup {f} |-> IF g = f THEN v ELSE env[g]]

CreateFromRequestEnvs ==
    LET fine == AllFine({"oci1", "oci2", "modelOK"})
        created == {With(With(fine, "vcn", v), "net", NoReply) : v \in VCNIDs \ vcns}
    IN  {With(With(FailingAt(DOMAIN fine, "oci1"), "vcn", "err"), "net", NoReply)}
        \cup {With(With(fine, "vcn", v), "net", NoReply) : v \in {"err", "noid"}}
        \cup {[e EXCEPT !.oci2 = FALSE] : e \in created}
        \cup created
        \cup {[e EXCEPT !.net = n] : e \in created, n \in NetworkReplies}
        \cup {[e EXCEPT !.net = n, !.modelOK = FALSE] :
                 e \in created, n \in {m \in NetworkReplies : Len(m.LBSubnetIDs) = 2}}

CreateClusterEnvs ==
    LET fields == {"oci", "manage", "k8sConfig", "k8sClient", "secret", "bind"}
    IN  {With(FailingAt(fields, f), "userOCID", "ocid1.user") : f \in fields}
        \cup {With(AllFine(fields), "userOCID", u) : u \in {"", "ocid1.user"}}

UpdateClusterEnvs ==
    LET fields == {"oci", "modelOK", "oci2", "manage"}
    IN  {With(FailingAt(fields, "oci"), "net", NoReply),
         With(AllFine(fields), "net", NoReply)}
        \cup {With(AllFine(fields), "net", n) : n \in NetworkReplies}
        \cup {With(FailingAt(fields, f), "net", n) :
                 f \in {"modelOK", "oci2", "manage"},
                 n \in {m \in NetworkReplies : Len(m.LBSubnetIDs) = 2}}

DeleteClusterEnvs ==
    LET fields == {"oci", "manage", "oci2", "vcnDelete"}
    IN  {FailingAt(fields, f) : f \in fields} \cup {AllFine(fields)}

GetClusterDetailsEnvs ==
    LET fields == {"oci", "ce"}
    IN  {With(FailingAt(fields, f), "cluster", NoReply) : f \in fields}
        \cup {With(AllFine(fields), "cluster", c) : c \in ClusterReplies \cup {NoReply}}

\* The hosts the live cluster may report as its Kubernetes endpoint.
APIHosts == {"host1", "host2"}

GetAPIEndpointEnvs ==
    LET fields == {"oci", "ce"}
    IN  {With(FailingAt(fields, f), "cluster", NoReply) : f \in fields}
        \cup {With(AllFine(fields), "cluster", NoReply)}
        \cup {With(AllFine(fields), "cluster",
                   [LifecycleState |-> "ACTIVE", Version |-> "v1", Endpoint |-> h]) :
                 h \in APIHosts}

DeleteFromDatabaseEnvs ==
    LET fields == {"delete", "cleanup"}
    IN  {FailingAt(fields, f) : f \in fields} \cup {AllFine(fields)}

DistSubnetLists ==
    {s \in UNION {[1..n -> {"wn" \o ToString(i) : i \in 1..MaxDistWN}] :
                      n \in 0..MaxDistWN} :
        \A i, j \in 1..Len(s) : i # j => s[i] # s[j]}

NoCall == [nil |-> TRUE]

---------------------------------------------------------------------------
(* The state machine *)

Init ==
    /\ modelCluster = NoCluster
    /\ vcns = {}
    /\ handler = "none"
    /\ request = NoRequest
    /\ calls = <<>>
    /\ networkValues = NoReply
    /\ cluster = NoReply
    /\ response = NoResponse
    /\ err = NoErr
    /\ APIEndpoint = ""
    /\ qpv = NoCall

\* The state a lifecycle handler leaves behind.
Returned(name, res) ==
    /\ handler' = name
    /\ request' = res.request
    /\ calls' = res.calls
    /\ networkValues' = res.networkValues
    /\ err' = res.err
    /\ vcns' = Upstream(vcns, res.calls)
    /\ cluster' = NoReply
    /\ response' = NoResponse
    /\ UNCHANGED qpv

\* A cluster is built from a create request when none is held; the caller
\* keeps the aggregate only if construction returned no error.  The VCN
\* manager hands out an id no existing network has.
CreateOKEClusterFromRequestStep ==
    /\ modelCluster = NoCluster
    /\ \E req \in Requests, env \in CreateFromRequestEnvs :
          LET res == CreateOKEClusterFromRequest(req, env)
          IN  /\ modelCluster' = IF res.err = NoErr THEN res.o ELSE NoCluster
              /\ APIEndpoint' = ""
              /\ Returned("CreateOKEClusterFromRequest", res)

CreateClusterStep ==
    /\ modelCluster # NoCluster
    /\ \E env \in CreateClusterEnvs :
          LET res == CreateCluster(modelCluster, env)
          IN  /\ modelCluster' = res.o
              /\ Returned("CreateCluster", res)
              /\ UNCHANGED APIEndpoint

UpdateClusterStep ==
    /\ modelCluster # NoCluster
    /\ \E req \in Requests, env \in UpdateClusterEnvs :
          LET res == UpdateCluster(modelCluster, req, env)
          IN  /\ modelCluster' = res.o
              /\ Returned("UpdateCluster", res)
              /\ UNCHANGED APIEndpoint

DeleteClusterStep ==
    /\ modelCluster # NoCluster
    /\ \E env \in DeleteClusterEnvs :
          LET res == DeleteCluster(modelCluster, env)
          IN  /\ modelCluster' = res.o
              /\ Returned("DeleteCluster", res)
              /\ UNCHANGED APIEndpoint

UpdateStatusStep ==
    /\ modelCluster # NoCluster
    /\ \E status \in Statuses, ok \in BOOLEAN :
          LET res == UpdateStatus(modelCluster, status, ok)
          IN  /\ modelCluster' = res.o
              /\ handler' = "UpdateStatus"
              /\ err' = res.err
              /\ request' = NoRequest
              /\ calls' = <<>>
              /\ networkValues' = NoReply
              /\ cluster' = NoReply
              /\ response' = NoResponse
              /\ UNCHANGED <<vcns, APIEndpoint, qpv>>

GetStatusStep ==
    /\ modelCluster # NoCluster
    /\ handler' = "GetStatus"
    /\ response' = GetStatus(modelCluster)
    /\ err' = NoErr
    /\ calls' = <<>>
    /\ request' = NoRequest
    /\ networkValues' = NoReply
    /\ cluster' = NoReply
    /\ UNCHANGED <<modelCluster, vcns, APIEndpoint, qpv>>

GetClusterDetailsStep ==
    /\ modelCluster # NoCluster
    /\ \E env \in GetClusterDetailsEnvs :
          LET res == GetClusterDetails(modelCluster, env)
          IN  /\ handler' = "GetClusterDetails"
              /\ err' = res.err
              /\ calls' = res.calls
              /\ cluster' = res.cluster
              /\ response' = res.response
              /\ request' = NoRequest
              /\ networkValues' = NoReply
              /\ UNCHANGED <<modelCluster, vcns, APIEndpoint, qpv>>

GetAPIEndpointStep ==
    /\ modelCluster # NoCluster
    /\ \E env \in GetAPIEndpointEnvs :
          LET res == GetAPIEndpoint(APIEndpoint, env)
          IN  /\ handler' = "GetAPIEndpoint"
              /\ APIEndpoint' = res.APIEndpoint
              /\ response' = [APIEndpoint |-> res.endpoint]
              /\ err' = res.err
              /\ calls' = res.calls
              /\ cluster' = res.cluster
              /\ request' = NoRequest
              /\ networkValues' = NoReply
              /\ UNCHANGED <<modelCluster, vcns, qpv>>

\* The caller removes the aggregate after DeleteCluster has returned without
\* an error, and not otherwise.
DeleteFromDatabaseStep ==
    /\ modelCluster # NoCluster
    /\ handler = "DeleteCluster"
    /\ err = NoErr
    /\ \E env \in DeleteFromDatabaseEnvs :
          LET res == DeleteFromDatabase(modelCluster, env)
          IN  /\ modelCluster' = res.o
              /\ handler' = "DeleteFromDatabase"
              /\ err' = res.err
              /\ calls' = <<>>
              /\ request' = NoRequest
              /\ networkValues' = NoReply
              /\ cluster' = NoReply
              /\ response' = NoResponse
              /\ UNCHANGED <<vcns, APIEndpoint, qpv>>

Next ==
    \/ CreateOKEClusterFromRequestStep
    \/ CreateClusterStep
    \/ UpdateClusterStep
    \/ DeleteClusterStep
    \/ UpdateStatusStep
    \/ GetStatusStep
    \/ GetClusterDetailsStep
    \/ DeleteFromDatabaseStep

Spec == Init /\ [][Next]_vars

\* GetPoolQuantityValues on its own, on every count and worker-subnet list.
GetPoolQuantityValuesStep ==
    /\ \E count \in 0..MaxDistCount, wn \in DistSubnetLists :
          qpv' = [count |-> count, WNSubnetIDs |-> wn,
                  out |-> GetPoolQuantityValues(count,
                             [LBSubnetIDs |-> <<>>, WNSubnetIDs |-> wn])]
    /\ UNCHANGED <<modelCluster, vcns, handler, request, calls, networkValues,
                   cluster, response, err, APIEndpoint>>

NextDist == GetPoolQuantityValuesStep

SpecDist == Init /\ [][NextDist]_vars

\* GetAPIEndpoint on a handle built from a create request, called any number
\* of times with any replies.
NextEndpoint ==
    \/ CreateOKEClusterFromRequestStep
    \/ GetAPIEndpointStep

SpecEndpoint == Init /\ [][NextEndpoint]_vars

---------------------------------------------------------------------------
(* Properties *)

Failed(cs) == {i \in 1..Len(cs) : ~cs[i].ok}
Named(cs, name) == {i \in 1..Len(cs) : cs[i].call = name}
LifecycleHandlers ==
    {"CreateOKEClusterFromRequest", "CreateCluster", "UpdateCluster", "DeleteCluster"}

\* C1: when the engine apply of UpdateCluster fails, the stored pool list is
\* what it was before the call: no pending-delete pool has been removed.
C1_FailedApplyKeepsPools ==
    [][(/\ handler' = "UpdateCluster"
        /\ \E i \in Named(calls', "ManageOKECluster") : ~calls'[i].ok)
       => modelCluster'.OKE.NodePools = modelCluster.OKE.NodePools]_vars

\* An update whose desired spec flags a stored pool pending-delete, whose
\* apply fails, and which leaves that pool stored.
C1_Witness ==
    /\ handler = "UpdateCluster"
    /\ \E i \in Named(calls, "ManageOKECluster") :
          /\ ~calls[i].ok
          /\ \E k \in 1..Len(calls[i].spec.NodePools) :
                /\ calls[i].spec.NodePools[k].Delete
                /\ calls[i].spec.NodePools[k].Name
                      \in NamesOf(modelCluster.OKE.NodePools)

\* C2: GetPoolQuantityValues agrees with the reference distribution on every
\* count and worker-subnet list: nothing for count 0 or fewer than 3 subnets,
\* else thirds over the first 3 subnets, else halves over the first 2, else
\* everything on the first subnet.
C2_DistributionMatchesReference ==
    qpv # NoCall =>
        LET c == qpv.count
            w == qpv.WNSubnetIDs
            out == qpv.out
        IN  /\ (c = 0 \/ Len(w) < 3) => out.qps = 0 /\ out.subnetIDS = <<>>
            /\ (c > 0 /\ Len(w) >= 3 /\ c % 3 = 0)
                  => out.qps * 3 = c /\ out.subnetIDS = <<w[1], w[2], w[3]>>
            /\ (c > 0 /\ Len(w) >= 3 /\ c % 3 # 0 /\ c % 2 = 0)
                  => out.qps * 2 = c /\ out.subnetIDS = <<w[1], w[2]>>
            /\ (c > 0 /\ Len(w) >= 3 /\ c % 3 # 0 /\ c % 2 # 0)
                  => out.qps = c /\ out.subnetIDS = <<w[1]>>

\* count 6 over four subnets: 2 on each of the first three.
C2_Witness ==
    /\ qpv # NoCall
    /\ qpv.count = 6
    /\ Len(qpv.WNSubnetIDs) = 4
    /\ qpv.out.qps = 2
    /\ Len(qpv.out.subnetIDS) = 3

\* C3: after PopulateNetworkValues succeeded, every pool's requested count is
\* quantityPerSubnet times the number of assigned subnets, and GetStatus on
\* the cluster built from the request reports the requested count.
C3_CountIsQuantityTimesSubnets ==
    (/\ handler \in {"CreateOKEClusterFromRequest", "UpdateCluster"}
     /\ networkValues # NoReply
     /\ Len(networkValues.LBSubnetIDs) = 2)
    => /\ \A i \in 1..Len(request.NodePools) :
             request.NodePools[i].Count =
                request.NodePools[i].QuantityPerSubnet
                   * Len(request.NodePools[i].SubnetIDs)
       /\ (handler = "CreateOKEClusterFromRequest" /\ err = NoErr)
             => \A i \in 1..Len(request.NodePools) :
                   GetStatus(modelCluster).NodePools[request.NodePools[i].Name].Count
                      = request.NodePools[i].Count

\* C4: a network reply with other than 2 load-balancer subnets makes
\* PopulateNetworkValues fail, whatever the node pools, and the spec is not
\* submitted: the handler makes no ManageOKECluster call, and the create path
\* yields no cluster that CreateCluster could submit.
C4_InvalidTopologyNotApplied ==
    (/\ handler \in {"CreateOKEClusterFromRequest", "UpdateCluster"}
     /\ networkValues # NoReply
     /\ Len(networkValues.LBSubnetIDs) # 2)
    => /\ err = InvalidNetworkConfig
       /\ Named(calls, "ManageOKECluster") = {}
       /\ handler = "CreateOKEClusterFromRequest" => modelCluster = NoCluster

\* An update with node pools against a network of 3 load-balancer subnets.
C4_Witness ==
    /\ handler = "UpdateCluster"
    /\ networkValues # NoReply
    /\ Len(networkValues.LBSubnetIDs) = 3
    /\ request.NodePools # <<>>
    /\ err # NoErr

\* C5: when the engine apply of UpdateCluster succeeds, the stored pool list
\* is the submitted desired spec's pool list without its pending-delete
\* pools, the others in their relative order; no stored pool is flagged.
C5_AppliedUpdateDropsPendingDelete ==
    (handler = "UpdateCluster" /\ err = NoErr)
    => \A i \in Named(calls, "ManageOKECluster") :
          LET desired == calls[i].spec.NodePools
              stored == modelCluster.OKE.NodePools
              kept == {k \in 1..Len(desired) : ~desired[k].Delete}
              nth(n) == CHOOSE k \in kept :
                            Cardinality({j \in kept : j < k}) = n - 1
          IN  /\ calls[i].ok
              /\ Len(stored) = Cardinality(kept)
              /\ \A n \in 1..Len(stored) : stored[n] = desired[nth(n)]
              /\ \A n \in 1..Len(stored) : ~stored[n].Delete
              /\ modelCluster.OKE = [calls[i].spec EXCEPT !.NodePools = stored]

\* A successful update whose desired spec has a pending-delete pool ahead of
\* a pool that stays.
C5_Witness ==
    /\ handler = "UpdateCluster"
    /\ err = NoErr
    /\ \E i \in Named(calls, "ManageOKECluster") :
          LET desired == calls[i].spec.NodePools
          IN  /\ Len(desired) = 2
              /\ desired[1].Delete
              /\ ~desired[2].Delete
    /\ Len(modelCluster.OKE.NodePools) = 1

\* The place of a call in the create sequence.
Rank(c) ==
    CASE c.call = "VCNCreate" -> 1
      [] c.call = "GetNetworkValues" -> 2
      [] c.call = "ManageOKECluster" -> 3
      [] c.call = "CreateClusterRoleBinding" -> 4
      [] OTHER -> 0

\* A step of the create sequence succeeded: its call returned no error, and
\* the network came with an id, and with exactly 2 load-balancer subnets.
StepSucceeded(c) ==
    /\ c.ok
    /\ c.call = "VCNCreate" => c.arg # ""
    /\ c.call = "GetNetworkValues" => Len(networkValues.LBSubnetIDs) = 2

\* C6: a create runs network create, network populate, engine apply, role
\* binding in this order; a step runs only after every earlier step
\* succeeded, and a failed step ends the operation with an error.
C6_CreateStepsInOrder ==
    /\ handler = "CreateOKEClusterFromRequest" =>
          /\ \A i \in 1..Len(calls) : Rank(calls[i]) = i
          /\ Len(calls) <= 2
          /\ \A i \in 1..Len(calls) : i < Len(calls) => StepSucceeded(calls[i])
          /\ (\E i \in 1..Len(calls) : ~StepSucceeded(calls[i])) => err # NoErr
          /\ err # NoErr => modelCluster = NoCluster
          /\ err = NoErr => Len(calls) = 2
    /\ handler = "CreateCluster" =>
          /\ \A i \in 1..Len(calls) : Rank(calls[i]) = i + 2
          /\ Len(calls) <= 2
          /\ \A i \in 1..Len(calls) : i < Len(calls) => StepSucceeded(calls[i])
          /\ (\E i \in 1..Len(calls) : ~StepSucceeded(calls[i])) => err # NoErr
          /\ err = NoErr => Len(calls) = 2
          /\ modelCluster # NoCluster
          /\ modelCluster.OKE.VCNID # ""
          /\ modelCluster.OKE.LBSubnetID1 # ""
          /\ modelCluster.OKE.LBSubnetID2 # ""

\* A CreateCluster whose apply failed: it made that one call and no other.
C6_Witness ==
    /\ handler = "CreateCluster"
    /\ Len(calls) = 1
    /\ ~calls[1].ok
    /\ err # NoErr

\* C7: the create path never deletes a network: a handler of the create path
\* makes no VCNDelete call, every network that existed before it still
\* exists after it, and so does the network it created, also when it fails.
C7_NoRollbackOnCreate ==
    [][handler' \in {"CreateOKEClusterFromRequest", "CreateCluster"}
       => /\ Named(calls', "VCNDelete") = {}
          /\ vcns \subseteq vcns'
          /\ \A i \in Named(calls', "VCNCreate") :
                (calls'[i].ok /\ calls'[i].arg # "") => calls'[i].arg \in vcns']_vars

\* A construction that created its network, failed afterwards, and leaves
\* the network behind with no cluster holding it.
C7_Witness ==
    /\ handler = "CreateOKEClusterFromRequest"
    /\ err # NoErr
    /\ modelCluster = NoCluster
    /\ \E i \in Named(calls, "VCNCreate") : calls[i].ok /\ calls[i].arg \in vcns

\* C8: DeleteCluster submits the spec with its deleting flag set, deletes the
\* network only after that submission succeeded, and leaves the networks
\* alone when the submission failed.
C8_DeleteOrder ==
    [][handler' = "DeleteCluster"
       => /\ \A i \in Named(calls', "ManageOKECluster") :
                i = 1 /\ calls'[i].spec.Delete
          /\ \A i \in Named(calls', "VCNDelete") :
                /\ i = 2
                /\ calls'[1].call = "ManageOKECluster"
                /\ calls'[1].ok
                /\ calls'[i].arg = modelCluster.OKE.VCNID
          /\ (\E i \in Named(calls', "ManageOKECluster") : ~calls'[i].ok)
                => vcns' = vcns
          /\ Len(calls') <= 2]_vars

\* A DeleteCluster whose submission failed while the network exists.
C8_Witness ==
    /\ handler = "DeleteCluster"
    /\ Len(calls) = 1
    /\ calls[1].call = "ManageOKECluster"
    /\ ~calls[1].ok
    /\ calls[1].spec.Delete
    /\ modelCluster.OKE.VCNID \in vcns

\* C9: GetClusterDetails fails with ClusterNotReady and returns no details
\* whenever the live cluster is not ACTIVE, whatever the persisted status.
C9_NotActiveIsNotReady ==
    (/\ handler = "GetClusterDetails"
     /\ cluster # NoReply
     /\ cluster.LifecycleState # "ACTIVE")
    => err = ErrorClusterNotReady /\ response = NoResponse

\* The live cluster is not ACTIVE while the persisted status is RUNNING.
C9_Witness ==
    /\ handler = "GetClusterDetails"
    /\ cluster # NoReply
    /\ cluster.LifecycleState # "ACTIVE"
    /\ modelCluster.Status = "RUNNING"
    /\ err = ErrorClusterNotReady

\* The error a collaborator returns from a call.
UpstreamError(name) ==
    CASE name = "VCNCreate" -> VCNCreateError
      [] name = "GetNetworkValues" -> NetworkValuesError
      [] name = "ManageOKECluster" -> ManageError
      [] name = "VCNDelete" -> VCNDeleteError
      [] name = "CreateClusterRoleBinding" -> BindingError

\* The stage labels CreateCluster puts in front of an error.
StageLabel(name) ==
    CASE name = "ManageOKECluster" -> "error creating cluster"
      [] name = "CreateClusterRoleBinding" -> "error get/create clusterrolebinding"
      [] OTHER -> ""

\* C10 as stated: the error of every failing external call of a lifecycle
\* handler comes back at once and wrapped with a stage label.
C10_EveryErrorWrapped ==
    handler \in LifecycleHandlers =>
        \A i \in Failed(calls) :
            /\ i = Len(calls)
            /\ err # NoErr
            /\ Len(err) >= 2
            /\ Cause(err) = Cause(UpstreamError(calls[i].call))

\* C10, amended: the error of every failing external call of a lifecycle
\* handler comes back at once, as the cause of the error returned; only
\* CreateCluster puts a stage label in front of it, the other handlers
\* return it as it is.
C10_EveryErrorReturned ==
    handler \in LifecycleHandlers =>
        \A i \in Failed(calls) :
            /\ i = Len(calls)
            /\ err # NoErr
            /\ Cause(err) = Cause(UpstreamError(calls[i].call))
            /\ handler = "CreateCluster" =>
                  Len(err) >= 2 /\ err[1] = StageLabel(calls[i].call)
            /\ handler # "CreateCluster" => err = UpstreamError(calls[i].call)

\* A DeleteCluster whose network deletion failed returns that error bare.
C10_Witness ==
    /\ handler = "DeleteCluster"
    /\ Len(calls) = 2
    /\ calls[2].call = "VCNDelete"
    /\ ~calls[2].ok
    /\ err = VCNDeleteError

\* C11: GetStatus makes no upstream call and cannot fail; for every stored
\* pool it reports Count = quantityPerSubnet x number of assigned subnets,
\* autoscaling off and MinCount = MaxCount = Count, and nothing but the
\* stored pools; it leaves the aggregate as it was.
C11_StatusFromStoredSpec ==
    [][handler' = "GetStatus"
       => /\ calls' = <<>>
          /\ err' = NoErr
          /\ modelCluster' = modelCluster
          /\ response'.Status = modelCluster.Status
          /\ DOMAIN response'.NodePools = NamesOf(modelCluster.OKE.NodePools)
          /\ \A i \in 1..Len(modelCluster.OKE.NodePools) :
                LET np == modelCluster.OKE.NodePools[i]
                    st == response'.NodePools[np.Name]
                IN  /\ st.Count = np.QuantityPerSubnet * Len(np.Subnets)
                    /\ st.Autoscaling = FALSE
                    /\ st.MinCount = st.Count
                    /\ st.MaxCount = st.Count]_vars

\* GetStatus on a cluster holding a pool of 2 instances on each of 3 subnets.
C11_Witness ==
    /\ handler = "GetStatus"
    /\ \E n \in DOMAIN response.NodePools : response.NodePools[n].Count = MaxCount
    /\ \E i \in 1..Len(modelCluster.OKE.NodePools) :
          /\ modelCluster.OKE.NodePools[i].QuantityPerSubnet > 1
          /\ Len(modelCluster.OKE.NodePools[i].Subnets) > 1

\* C12: CreateCluster asks for the admin role binding only after its engine
\* apply succeeded and only for a non-empty user OCID; with an empty user
\* OCID it fails with the validation error and asks for no binding.
C12_BindingNeedsApplyAndUserOCID ==
    handler = "CreateCluster" =>
        /\ \A i \in Named(calls, "CreateClusterRoleBinding") :
              /\ i = 2
              /\ calls[1].call = "ManageOKECluster"
              /\ calls[1].ok
              /\ calls[i].arg # ""
        /\ err = NoErr => Named(calls, "CreateClusterRoleBinding") # {}
        /\ (err # NoErr /\ Cause(err) = Cause(EmptyUserOCID)) =>
              /\ Named(calls, "CreateClusterRoleBinding") = {}
              /\ Len(calls) = 1
              /\ calls[1].call = "ManageOKECluster"
              /\ calls[1].ok

\* A CreateCluster whose apply succeeded and whose secret has no user OCID.
C12_Witness ==
    /\ handler = "CreateCluster"
    /\ err = Wrap(EmptyUserOCID, "error get/create clusterrolebinding")
    /\ Len(calls) = 1
    /\ calls[1].ok

\* The in-progress status of each handler that applies a spec.
InProgressStatus(name) ==
    CASE name = "CreateCluster" -> "CREATING"
      [] name = "UpdateCluster" -> "UPDATING"
      [] name = "DeleteCluster" -> "DELETING"

SpecAppliers == {"CreateCluster", "UpdateCluster", "DeleteCluster"}

\* C13 as stated: CreateCluster, UpdateCluster and DeleteCluster set the
\* status to their in-progress value before they call ManageOKECluster.
C13_StatusSetBeforeApply ==
    [][(handler' \in SpecAppliers /\ Named(calls', "ManageOKECluster") # {})
          => modelCluster'.Status = InProgressStatus(handler')]_vars

\* C13: CreateCluster, UpdateCluster and DeleteCluster leave the status as
\* they found it, also when they call ManageOKECluster; the status of a held
\* aggregate changes only in UpdateStatus, which the caller invokes.
C13_StatusChangesOnlyInUpdateStatus ==
    [][/\ handler' \in SpecAppliers => modelCluster'.Status = modelCluster.Status
       /\ (/\ modelCluster # NoCluster
           /\ modelCluster' # NoCluster
           /\ modelCluster'.Status # modelCluster.Status)
             => handler' = "UpdateStatus" /\ err' = NoErr]_vars

\* An UpdateCluster that applied its spec while the status stayed RUNNING.
C13_Witness ==
    /\ handler = "UpdateCluster"
    /\ Named(calls, "ManageOKECluster") # {}
    /\ modelCluster.Status = "RUNNING"

\* C14: a successful GetClusterDetails reports the master version that the
\* live query returned, not the version of the stored spec.
C14_DetailsReportLiveVersion ==
    (handler = "GetClusterDetails" /\ err = NoErr)
        => response.MasterVersion = cluster.Version

\* C15 as stated: once a call of GetAPIEndpoint has succeeded, a later call
\* yields the endpoint kept on the handle.
C15_LaterCallYieldsCached ==
    [][(handler' = "GetAPIEndpoint" /\ APIEndpoint # "")
          => response'.APIEndpoint = APIEndpoint]_vars

\* C15: every call of GetAPIEndpoint queries the engine unless building its
\* client fails; a call whose query succeeds returns "https://" followed by
\* the host this query reported and keeps it on the handle, in place of what
\* an earlier call kept; a call that fails returns the error with the
\* endpoint kept so far, which stays.
C15_EndpointFromEveryQuery ==
    [][handler' = "GetAPIEndpoint" =>
          /\ response'.APIEndpoint = APIEndpoint'
          /\ modelCluster' = modelCluster
          /\ err' = NoErr =>
                /\ Len(calls') = 1
                /\ calls'[1].call = "GetCluster"
                /\ calls'[1].ok
                /\ APIEndpoint' = "https://" \o cluster'.Endpoint
          /\ err' # NoErr =>
                /\ APIEndpoint' = APIEndpoint
                /\ \A i \in 1..Len(calls') : ~calls'[i].ok
          /\ err' # OCIError => Len(calls') = 1]_vars

\* A call after a successful one: its own query failed, and it returned the
\* error with the endpoint the earlier call had kept.
C15_Witness ==
    /\ handler = "GetAPIEndpoint"
    /\ err = GetClusterError
    /\ Len(calls) = 1
    /\ response.APIEndpoint = "https://host2"
    /\ APIEndpoint = "https://host2"

C17_UpdateKeepsNetwork ==
    [][handler' = "UpdateCluster" =>
          /\ Named(calls', "VCNCreate") = {}
          /\ Named(calls', "VCNDelete") = {}
          /\ vcns' = vcns
          /\ \A i \in Named(calls', "GetNetworkValues") :
                calls'[i].arg = modelCluster.OKE.VCNID
          /\ \A i \in Named(calls', "ManageOKECluster") :
                calls'[i].spec.VCNID = modelCluster.OKE.VCNID
          /\ modelCluster'.OKE.VCNID = modelCluster.OKE.VCNID]_vars

\* An applied update on the network created with the cluster.
C17_Witness ==
    /\ handler = "UpdateCluster"
    /\ err = NoErr
    /\ \E i \in Named(calls, "GetNetworkValues") : calls[i].arg = "vcn1"
    /\ \E i \in Named(calls, "ManageOKECluster") : calls[i].spec.VCNID = "vcn1"
    /\ modelCluster.OKE.VCNID = "vcn1"
    /\ vcns = {"vcn1"}

\* The external calls that change something upstream.
MutatingCalls ==
    {"VCNCreate", "ManageOKECluster", "VCNDelete", "CreateClusterRoleBinding"}

\* C18: within one lifecycle operation each mutating external call (network
\* create, engine apply, network delete, RBAC binding create) is made at most
\* once, and after one of them returned an error no further mutating call is
\* made.
C18_NoRetries ==
    handler \in LifecycleHandlers =>
        /\ \A name \in MutatingCalls : Cardinality(Named(calls, name)) <= 1
        /\ \A i \in Failed(calls) :
              calls[i].call \in MutatingCalls =>
                  \A j \in (i + 1)..Len(calls) : calls[j].call \notin MutatingCalls

\* A DeleteCluster whose network deletion failed after its apply: two
\* mutating calls, the failed one last.
C18_Witness ==
    /\ handler = "DeleteCluster"
    /\ Len(calls) = 2
    /\ calls[1].call = "ManageOKECluster" /\ calls[1].ok
    /\ calls[2].call = "VCNDelete" /\ ~calls[2].ok

\* C19: a DeleteCluster that returns an error leaves the stored spec flagged
\* as deleting and otherwise as it was; while the stored spec is flagged, a
\* later CreateCluster or DeleteCluster submits it flagged and leaves it
\* flagged.
C19_FailedDeleteKeepsMark ==
    [][/\ (handler' = "DeleteCluster" /\ err' # NoErr) =>
             /\ modelCluster'.OKE.Delete
             /\ modelCluster' = [modelCluster EXCEPT !.OKE.Delete = TRUE]
       /\ (/\ modelCluster # NoCluster
           /\ modelCluster.OKE.Delete
           /\ handler' \in {"CreateCluster", "DeleteCluster"}) =>
             /\ modelCluster'.OKE.Delete
             /\ \A i \in Named(calls', "ManageOKECluster") :
                   /\ calls'[i].spec.Delete
                   /\ calls'[i].spec = modelCluster.OKE]_vars

\* A CreateCluster that submitted the spec flagged as deleting while the
\* network is still there: the DeleteCluster before it had failed.
C19_Witness ==
    /\ handler = "CreateCluster"
    /\ \E i \in Named(calls, "ManageOKECluster") : calls[i].spec.Delete
    /\ modelCluster.OKE.Delete
    /\ vcns = {"vcn1"}

\* C20: when the network reply has other than 2 load-balancer subnets,
\* PopulateNetworkValues has set the request's virtual network id to the id
\* it asked about and nothing else: both load-balancer subnet ids and every
\* pool's quantityPerSubnet and subnets are as the request arrived; when the
\* GetNetworkValues query itself fails, the request is as it arrived.
C20_PartialPopulate ==
    handler \in {"CreateOKEClusterFromRequest", "UpdateCluster"} =>
        /\ (networkValues # NoReply /\ Len(networkValues.LBSubnetIDs) # 2) =>
              /\ err = InvalidNetworkConfig
              /\ request.VCNID # ""
              /\ \A i \in Named(calls, "GetNetworkValues") :
                    request.VCNID = calls[i].arg
              /\ request.LBSubnetID1 = ""
              /\ request.LBSubnetID2 = ""
              /\ \A i \in 1..Len(request.NodePools) :
                    /\ request.NodePools[i].QuantityPerSubnet = 0
                    /\ request.NodePools[i].SubnetIDs = <<>>
              /\ [request EXCEPT !.VCNID = ""] \in Requests
        /\ (\E i \in Named(calls, "GetNetworkValues") : ~calls[i].ok) =>
              /\ err = NetworkValuesError
              /\ request \in Requests

\* An update of a pool of MaxCount nodes against a network of 3
\* load-balancer and 3 worker subnets: only the network id was written.
C20_Witness ==
    /\ handler = "UpdateCluster"
    /\ err = InvalidNetworkConfig
    /\ Len(networkValues.LBSubnetIDs) = 3
    /\ Len(networkValues.WNSubnetIDs) = 3
    /\ request.VCNID = "vcn1"
    /\ request.LBSubnetID1 = ""
    /\ \E i \in 1..Len(request.NodePools) :
          /\ request.NodePools[i].Count = MaxCount
          /\ request.NodePools[i].QuantityPerSubnet = 0

===========================================================================
